---------------------------- MODULE Spec2Model ----------------------------
(***************************************************************************)
(* sdi_pipeline: the align dispatcher (align/align.py: align), the         *)
(* point-set aligner (align/align.py: sources) and the combiner            *)
(* (combine/combine.py: combine), each as a state machine that follows the *)
(* function statement by statement.  External libraries are uninterpreted: *)
(* a backend call either fails or returns a value that records which       *)
(* routine produced it from which arguments.                               *)
(***************************************************************************)
EXTENDS Integers, Sequences, FiniteSets, TLC

VARIABLES
    installed,      \* packages importable when align.py is loaded
    loaded,         \* align.py has been imported
    bound,          \* module-level names the optional imports bound
    printed,        \* UNABLE lines printed at load
    loadError,      \* exception that escaped the import of align.py
    pc,             \* position inside the running call
    source_s,       \* align: argument source_s
    referenceArg,   \* history: argument reference as the caller passed it
    reference,      \* align / sources: argument (and local) reference
    method,         \* align / combine: argument method
    sources,        \* align: local sources
    outputs,        \* align: local outputs
    np_ref,         \* align: local np_ref
    np_src,         \* align: local np_src
    output,         \* align: local output
    i,              \* index of the element the for loop is at (1-based)
    result,         \* what the call returned to its caller
    error,          \* the exception the call ended with
    selectorCalls,  \* history: arguments of every ref_image call
    convLog,        \* history: every to_np call
    backendCalls,   \* history: every external backend call
    hdu_s,          \* combine: argument hdu_s
    hdu,            \* combine: local hdu
    data,           \* combine: local data
    comb,           \* combine: local comb
    catalogs,       \* sources: argument catalogs
    npref,          \* sources: local npref
    npc,            \* sources: local npc
    T,              \* sources: local T
    c_align,        \* sources: local c_align
    aligned,        \* sources: local aligned
    j               \* sources: index of the record the inner loop is at

moduleVars  == <<installed, loaded, bound, printed, loadError>>
alignVars   == <<source_s, referenceArg, sources, outputs, np_ref, np_src, output, selectorCalls>>
combineVars == <<hdu_s, hdu, data, comb>>
catalogVars == <<catalogs, npref, npc, T, c_align, aligned, j>>
callVars    == <<pc, reference, method, i, result, error, convLog, backendCalls>>
vars == <<moduleVars, alignVars, combineVars, catalogVars, callVars>>

-----------------------------------------------------------------------------
(* Bounds of the model *)

MaxSources == 2

MaxImages == 3

MaxPixel == 1

MaxCatalogs == 2

MaxRecords == 2

-----------------------------------------------------------------------------
(* Python values *)

None == [kind |-> "None"]

Ndarray(d) == [kind |-> "ndarray", data |-> d]

Hdu(d, h) == [kind |-> "hdu", data |-> d, header |-> h]

\* a value that is neither an array nor an HDU (a string, say)
Other == [kind |-> "str"]

RawArrays == {[tag |-> "raw", id |-> "a1"], [tag |-> "raw", id |-> "a2"]}

Headers == {"h1", "h2"}

Images == {Ndarray(d) : d \in RawArrays} \cup {Hdu(d, h) : d \in RawArrays, h \in Headers}

Values == Images \cup {Other}

SeqsUpTo(S, n) == UNION {[1..k -> S] : k \in 0..n}

\* a Python argument that is either one value or a list of values
Single(v) == [islist |-> FALSE, value |-> v]

List(s) == [islist |-> TRUE, value |-> s]

\* exceptions
NoError == [class |-> "none", kind |-> "", method |-> "", module |-> ""]

Raise(c, k, m, mod) == [class |-> c, kind |-> k, method |-> m, module |-> mod]

\* what a call has handed back to its caller
NoResult == [kind |-> "none"]

Returned(islist, v) == [kind |-> IF islist THEN "list" ELSE "single", value |-> v]

-----------------------------------------------------------------------------
(* common.to_np and common.HDU_TYPES *)

IsHdu(v) == v.kind = "hdu"

ToNpOk(v) == v.kind \in {"ndarray", "hdu"}

ToNp(v) == v.data

ToNpError(msg) == Raise("TypeError", msg, "", "")

-----------------------------------------------------------------------------
(* Module load: the optional imports of align.py *)

Packages == {"astroalign", "skimage", "scipy", "image_registration", "imreg_dft"}

\* scikit-image itself imports scipy, so it is never importable without it
InstallSets == {S \in SUBSET Packages : "skimage" \in S => "scipy" \in S}

Methods == {"astroalign", "skimage", "chi2", "imreg"}

\* a method name outside the four
OtherMethods == {"swarp"}

UNABLE(modules, m) == [modules |-> modules, method |-> m]

DISABLED(m, modules) == Raise("ValueError", "disabled", m, modules)

TryAstroalign(inst) ==
    IF "astroalign" \in inst
    THEN [names |-> {"astroalign"}, out |-> <<>>]
    ELSE [names |-> {}, out |-> <<UNABLE("astroalign", "astroalign")>>]

TrySkimage(inst) ==
    IF "skimage" \notin inst
    THEN [names |-> {}, out |-> <<UNABLE("skimage or scipy", "skimage")>>]
    ELSE IF "scipy" \notin inst
    THEN [names |-> {"register_translation"},
          out |-> <<UNABLE("skimage or scipy", "skimage")>>]
    ELSE [names |-> {"register_translation", "fourier_shift"}, out |-> <<>>]

TryChi2(inst) ==
    IF "image_registration" \in inst
    THEN [names |-> {"chi2_shift", "fft_tools"}, out |-> <<>>]
    ELSE [names |-> {}, out |-> <<UNABLE("image_registration", "chi2")>>]

TryImreg(inst) ==
    IF "imreg_dft" \in inst
    THEN [names |-> {"imreg_dft"}, out |-> <<>>]
    ELSE [names |-> {}, out |-> <<UNABLE("imreg_dft", "imreg")>>]

LoadModule ==
    /\ ~loaded
    /\ loaded' = TRUE
    /\ bound' = TryAstroalign(installed).names \cup TrySkimage(installed).names
                    \cup TryChi2(installed).names \cup TryImreg(installed).names
    /\ printed' = TryAstroalign(installed).out \o TrySkimage(installed).out
                    \o TryChi2(installed).out \o TryImreg(installed).out
    /\ loadError' = NoError
    /\ UNCHANGED <<installed, alignVars, combineVars, catalogVars, callVars>>

-----------------------------------------------------------------------------
(* align(source_s, reference=None, method="astroalign") *)

AlignArgs == {Single(v) : v \in Values} \cup {List(s) : s \in SeqsUpTo(Values, MaxSources)}

\* the lists the code builds before anything else
Normalize(arg) == IF arg.islist THEN arg.value ELSE <<arg.value>>

AlignCall ==
    /\ loaded
    /\ pc = "idle"
    /\ \E a \in AlignArgs, r \in Values \cup {None}, m \in Methods \cup OtherMethods :
        /\ source_s' = a
        /\ reference' = r
        /\ referenceArg' = r
        /\ method' = m
        /\ sources' = Normalize(a)
    /\ outputs' = <<>>
    /\ pc' = "align_reference"
    /\ UNCHANGED <<moduleVars, combineVars, catalogVars, np_ref, np_src, output,
                   selectorCalls, i, result, error, convLog, backendCalls>>

\* ref_image(sources): one of the images it was given; what it does with an
\* empty list or with a value that is no image is not known
RefImageOutcomes(srcs) ==
    {[ok |-> TRUE, value |-> srcs[k]] : k \in 1..Len(srcs)}
        \cup (IF srcs = <<>> THEN {[ok |-> TRUE, value |-> None]} ELSE {})
        \cup (IF srcs # <<>> /\ (\A k \in 1..Len(srcs) : ToNpOk(srcs[k]))
              THEN {}
              ELSE {[ok |-> FALSE, value |-> None]})

\* as AlignReferenceGiven, with line 68 run whether or not a reference was given
AlignReferenceAlwaysPicked ==
    /\ pc = "align_reference"
    /\ reference # None
    /\ selectorCalls' = Append(selectorCalls, sources)
    /\ \E o \in RefImageOutcomes(sources) : reference' = o.value
    /\ pc' = "align_np_ref"
    /\ UNCHANGED <<moduleVars, combineVars, catalogVars, source_s, referenceArg, sources,
                   outputs, np_ref, np_src, output, method, i, result, error, convLog,
                   backendCalls>>

\* lines 67-68 with a reference given: the selector is not called
AlignReferenceGiven ==
    /\ pc = "align_reference"
    /\ reference # None
    /\ pc' = "align_np_ref"
    /\ UNCHANGED <<moduleVars, alignVars, combineVars, catalogVars, reference, method,
                   i, result, error, convLog, backendCalls>>

\* lines 67-68 with reference None: reference = ref_image(sources)
AlignReferencePicked ==
    /\ pc = "align_reference"
    /\ reference = None
    /\ selectorCalls' = Append(selectorCalls, sources)
    /\ \E o \in RefImageOutcomes(sources) :
        IF o.ok
        THEN /\ reference' = o.value
             /\ pc' = "align_np_ref"
             /\ error' = error
        ELSE /\ reference' = reference
             /\ pc' = "raised"
             /\ error' = Raise("SelectorError", "ref_image", "", "")
    /\ UNCHANGED <<moduleVars, combineVars, catalogVars, source_s, referenceArg, sources, outputs,
                   np_ref, np_src, output, method, i, result, convLog, backendCalls>>

\* line 69
AlignConvertReference ==
    /\ pc = "align_np_ref"
    /\ convLog' = Append(convLog, [of |-> "reference", pos |-> 0, ok |-> ToNpOk(reference)])
    /\ IF ToNpOk(reference)
       THEN /\ np_ref' = ToNp(reference)
            /\ pc' = "align_loop"
            /\ i' = 1
            /\ error' = error
       ELSE /\ np_ref' = np_ref
            /\ pc' = "raised"
            /\ i' = i
            /\ error' = ToNpError("Cannot align to unexpected type")
    /\ UNCHANGED <<moduleVars, combineVars, catalogVars, source_s, referenceArg, sources, outputs,
                   np_src, output, selectorCalls, reference, method, result,
                   backendCalls>>

\* as AlignConvertSource, with a source that cannot be converted skipped
AlignConvertSourceSkips ==
    /\ pc = "align_loop"
    /\ i <= Len(sources)
    /\ convLog' = Append(convLog, [of |-> "source", pos |-> i, ok |-> ToNpOk(sources[i])])
    /\ IF ToNpOk(sources[i])
       THEN /\ np_src' = ToNp(sources[i])
            /\ output' = [tag |-> "empty"]
            /\ pc' = "align_dispatch"
            /\ i' = i
       ELSE /\ np_src' = np_src
            /\ output' = output
            /\ pc' = "align_loop"
            /\ i' = i + 1
    /\ UNCHANGED <<moduleVars, combineVars, catalogVars, source_s, referenceArg, sources,
                   outputs, np_ref, selectorCalls, reference, method, result, error,
                   backendCalls>>

\* lines 71-74: the next source, converted
AlignConvertSource ==
    /\ pc = "align_loop"
    /\ i <= Len(sources)
    /\ convLog' = Append(convLog, [of |-> "source", pos |-> i, ok |-> ToNpOk(sources[i])])
    /\ IF ToNpOk(sources[i])
       THEN /\ np_src' = ToNp(sources[i])
            /\ output' = [tag |-> "empty"]
            /\ pc' = "align_dispatch"
            /\ error' = error
       ELSE /\ np_src' = np_src
            /\ output' = output
            /\ pc' = "raised"
            /\ error' = ToNpError("Cannot align unexpected type")
    /\ UNCHANGED <<moduleVars, combineVars, catalogVars, source_s, referenceArg, sources, outputs,
                   np_ref, selectorCalls, reference, method, i, result, backendCalls>>


\* names a statement of align can resolve: module globals and align's locals
ModuleNames == {"np", "to_np", "HDU_TYPES", "PrimaryHDU", "ref_image", "Source",
                "UNABLE", "DISABLED", "align", "sources"}

AlignLocals == {"source_s", "reference", "method", "sources", "outputs", "np_ref",
                "np_src", "source", "output", "shift", "output_fft", "dx", "dy"}

Resolves(name) == name \in bound \cup ModuleNames \cup AlignLocals

\* the array a backend routine returns for a source array and a reference array
Aligned(by, src, ref) == [tag |-> "aligned", by |-> by, src |-> src, ref |-> ref]

BackendCall(fn, pos, src, ref, ok) == [fn |-> fn, pos |-> pos, src |-> src, ref |-> ref, ok |-> ok]

BackendError(fn) == Raise("BackendError", fn, "", "")

\* the tail every dispatch branch shares: either an exception leaves align,
\* or output is set and control reaches line 102
DispatchEnds(calls, err, out) ==
    /\ backendCalls' = backendCalls \o calls
    /\ IF err = NoError
       THEN /\ output' = out
            /\ pc' = "align_wrap"
            /\ error' = error
       ELSE /\ output' = output
            /\ pc' = "raised"
            /\ error' = err
    /\ UNCHANGED <<moduleVars, combineVars, catalogVars, source_s, referenceArg, sources, outputs,
                   np_ref, np_src, selectorCalls, reference, method, i, result,
                   convLog>>

\* as DispatchAstroalign, without the except NameError clause
DispatchAstroalignUncaught ==
    /\ pc = "align_dispatch"
    /\ method = "astroalign"
    /\ IF ~Resolves("astroalign")
       THEN DispatchEnds(<<>>, Raise("NameError", "astroalign", "", ""), output)
       ELSE \E ok \in BOOLEAN :
            DispatchEnds(<<BackendCall("astroalign.register", i, np_src, np_ref, ok)>>,
                         IF ok THEN NoError ELSE BackendError("astroalign.register"),
                         Aligned("astroalign.register", np_src, np_ref))

\* lines 76-80
DispatchAstroalign ==
    /\ pc = "align_dispatch"
    /\ method = "astroalign"
    /\ IF ~Resolves("astroalign")
       THEN DispatchEnds(<<>>, DISABLED(method, "astroalign"), output)
       ELSE \E ok \in BOOLEAN :
            DispatchEnds(<<BackendCall("astroalign.register", i, np_src, np_ref, ok)>>,
                         IF ok THEN NoError ELSE BackendError("astroalign.register"),
                         Aligned("astroalign.register", np_src, np_ref))

\* lines 81-87
DispatchSkimage ==
    /\ pc = "align_dispatch"
    /\ method = "skimage"
    /\ IF ~Resolves("register_translation")
       THEN DispatchEnds(<<>>, DISABLED(method, "scipy or numpy"), output)
       ELSE \E ok1 \in BOOLEAN, ok2 \in BOOLEAN :
            LET first == BackendCall("register_translation", i, np_src, np_ref, ok1)
                second == BackendCall("fourier_shift", i, np_src, np_ref, ok2)
            IN  IF ~ok1
                THEN /\ ok2
                     /\ DispatchEnds(<<first>>, BackendError("register_translation"), output)
                ELSE IF ~Resolves("fourier_shift")
                THEN /\ ok2
                     /\ DispatchEnds(<<first>>, DISABLED(method, "scipy or numpy"), output)
                ELSE DispatchEnds(<<first, second>>,
                                  IF ok2 THEN NoError ELSE BackendError("fourier_shift"),
                                  Aligned("fourier_shift", np_src, np_ref))

\* lines 88-93: the argument of shiftnd is the name data
DispatchChi2 ==
    /\ pc = "align_dispatch"
    /\ method = "chi2"
    /\ IF ~Resolves("chi2_shift")
       THEN DispatchEnds(<<>>, DISABLED(method, "image_registration"), output)
       ELSE \E ok1 \in BOOLEAN, ok2 \in BOOLEAN :
            LET first == BackendCall("chi2_shift", i, np_src, np_ref, ok1)
                second == BackendCall("shiftnd", i, np_src, np_ref, ok2)
            IN  IF ~ok1
                THEN /\ ok2
                     /\ DispatchEnds(<<first>>, BackendError("chi2_shift"), output)
                ELSE IF ~(Resolves("fft_tools") /\ Resolves("data"))
                THEN /\ ok2
                     /\ DispatchEnds(<<first>>, DISABLED(method, "image_registration"), output)
                ELSE DispatchEnds(<<first, second>>,
                                  IF ok2 THEN NoError ELSE BackendError("shiftnd"),
                                  Aligned("shiftnd", np_src, np_ref))

\* lines 94-98
DispatchImreg ==
    /\ pc = "align_dispatch"
    /\ method = "imreg"
    /\ IF ~Resolves("imreg_dft")
       THEN DispatchEnds(<<>>, DISABLED(method, "imreg_dft"), output)
       ELSE \E ok \in BOOLEAN :
            DispatchEnds(<<BackendCall("imreg_dft.similarity", i, np_src, np_ref, ok)>>,
                         IF ok THEN NoError ELSE BackendError("imreg_dft.similarity"),
                         Aligned("imreg_dft.similarity", np_src, np_ref))

\* as DispatchUnexpected, with the else branch missing
DispatchUnexpectedFallsThrough ==
    /\ pc = "align_dispatch"
    /\ method \notin Methods
    /\ DispatchEnds(<<>>, NoError, output)

\* lines 99-100
DispatchUnexpected ==
    /\ pc = "align_dispatch"
    /\ method \notin Methods
    /\ DispatchEnds(<<>>, Raise("ValueError", "unexpected_method", method, ""), output)

\* as Rewrap, with the header never re-attached
RewrapBare(source, out) == Ndarray(out)

\* lines 102-103: the output takes the carrier of its own source
Rewrap(source, out) == IF IsHdu(source) THEN Hdu(out, source.header) ELSE Ndarray(out)

\* lines 102-104
AlignWrap ==
    /\ pc = "align_wrap"
    /\ outputs' = Append(outputs, Rewrap(sources[i], output))
    /\ i' = i + 1
    /\ pc' = "align_loop"
    /\ UNCHANGED <<moduleVars, combineVars, catalogVars, source_s, referenceArg, sources, np_ref,
                   np_src, output, selectorCalls, reference, method, result, error,
                   convLog, backendCalls>>

\* as ReturnValue, with the list returned whatever was passed
ReturnValueAlwaysList(arg, outs) == Returned(TRUE, outs)

\* line 106
ReturnValue(arg, outs) == IF arg.islist THEN Returned(TRUE, outs) ELSE Returned(FALSE, outs[1])

AlignReturn ==
    /\ pc = "align_loop"
    /\ i > Len(sources)
    /\ result' = ReturnValue(source_s, outputs)
    /\ pc' = "returned"
    /\ UNCHANGED <<moduleVars, alignVars, combineVars, catalogVars, reference, method,
                   i, error, convLog, backendCalls>>

-----------------------------------------------------------------------------
(* Specification of the align dispatcher *)

Blank ==
    /\ loaded = FALSE
    /\ bound = {}
    /\ printed = <<>>
    /\ loadError = NoError
    /\ pc = "idle"
    /\ source_s = Single(None)
    /\ referenceArg = None
    /\ reference = None
    /\ method = ""
    /\ sources = <<>>
    /\ outputs = <<>>
    /\ np_ref = None
    /\ np_src = None
    /\ output = None
    /\ i = 0
    /\ result = NoResult
    /\ error = NoError
    /\ selectorCalls = <<>>
    /\ convLog = <<>>
    /\ backendCalls = <<>>
    /\ hdu_s = Single(None)
    /\ hdu = <<>>
    /\ data = <<>>
    /\ comb = None
    /\ catalogs = <<>>
    /\ npref = <<>>
    /\ npc = <<>>
    /\ T = None
    /\ c_align = <<>>
    /\ aligned = <<>>
    /\ j = 0

Init ==
    /\ installed \in InstallSets
    /\ Blank

Next ==
    \/ LoadModule
    \/ AlignCall
    \/ AlignReferenceGiven
    \/ AlignReferencePicked
    \/ AlignConvertReference
    \/ AlignConvertSource
    \/ DispatchAstroalign
    \/ DispatchSkimage
    \/ DispatchChi2
    \/ DispatchImreg
    \/ DispatchUnexpected
    \/ AlignWrap
    \/ AlignReturn

Spec == Init /\ [][Next]_vars


-----------------------------------------------------------------------------
(* combine(hdu_s, method="numpy") *)

\* pixel arrays of one row and two columns, and one array of another shape
PixelArrays == {<<<<a, b>>>> : a \in 0..MaxPixel, b \in 0..MaxPixel}

OddShaped == <<<<0>>, <<0>>>>

\* the HDUs carry the uniform arrays only, which keeps the input set small
CombineImages ==
    {Ndarray(p) : p \in PixelArrays}
        \cup {Hdu(p, "h1") : p \in {q \in PixelArrays : q[1][1] = q[1][2]}}
        \cup {Ndarray(OddShaped)}

CombineValues == CombineImages \cup {Other}

CombineArgs ==
    {Single(v) : v \in CombineValues} \cup {List(s) : s \in SeqsUpTo(CombineValues, MaxImages)}

\* lines 20-24
CombineCall ==
    /\ pc = "idle"
    /\ \E a \in CombineArgs, m \in {"numpy"} \cup OtherMethods :
        /\ hdu_s' = a
        /\ hdu' = Normalize(a)
        /\ method' = m
    /\ pc' = "combine_method"
    /\ UNCHANGED <<moduleVars, alignVars, catalogVars, data, comb, reference, i, result,
                   error, convLog, backendCalls>>

\* as CombineMethodCheck, with the test of method left out
CombineMethodUnchecked ==
    /\ pc = "combine_method"
    /\ pc' = "combine_convert"
    /\ UNCHANGED <<moduleVars, alignVars, combineVars, catalogVars, reference, method, i,
                   result, error, convLog, backendCalls>>

\* lines 26-29
CombineMethodCheck ==
    /\ pc = "combine_method"
    /\ IF method # "numpy"
       THEN /\ pc' = "raised"
            /\ error' = Raise("NotImplementedError", "combine_method", "", "")
       ELSE /\ pc' = "combine_convert"
            /\ error' = error
    /\ UNCHANGED <<moduleVars, alignVars, combineVars, catalogVars, reference, method, i,
                   result, convLog, backendCalls>>

\* the first element to_np rejects, or one past the end
FirstRejected(s) ==
    IF \A k \in 1..Len(s) : ToNpOk(s[k])
    THEN Len(s) + 1
    ELSE CHOOSE k \in 1..Len(s) : ~ToNpOk(s[k]) /\ \A l \in 1..(k - 1) : ToNpOk(s[l])

\* line 30: the comprehension converts in order and stops at the first failure
CombineConvert ==
    /\ pc = "combine_convert"
    /\ LET stop == FirstRejected(hdu)
           last == IF stop > Len(hdu) THEN Len(hdu) ELSE stop
       IN  /\ convLog' = convLog \o
                    [k \in 1..last |-> [of |-> "image", pos |-> k, ok |-> ToNpOk(hdu[k])]]
           /\ IF stop > Len(hdu)
              THEN /\ data' = [k \in 1..Len(hdu) |-> ToNp(hdu[k])]
                   /\ pc' = "combine_median"
                   /\ error' = error
              ELSE /\ data' = data
                   /\ pc' = "raised"
                   /\ error' = ToNpError("default")
    /\ UNCHANGED <<moduleVars, alignVars, catalogVars, hdu_s, hdu, comb, reference, method,
                   i, result, backendCalls>>

\* numbers numpy returns as floats: halves are enough here
Whole(x) == [num |-> x, den |-> 1]

MeanOfTwo(a, b) == IF (a + b) % 2 = 0 THEN Whole((a + b) \div 2) ELSE [num |-> a + b, den |-> 2]

Sorted(vals) == SortSeq(vals, LAMBDA a, b : a < b)

\* as Median, with the lower middle sample taken when the count is even
MedianLower(vals) == Whole(Sorted(vals)[(Len(vals) + 1) \div 2])

\* np.median of a non-empty sequence of numbers
Median(vals) ==
    LET n == Len(vals)
        srt == Sorted(vals)
    IN  IF n % 2 = 1
        THEN Whole(srt[(n + 1) \div 2])
        ELSE MeanOfTwo(srt[n \div 2], srt[n \div 2 + 1])

Shape(m) == <<Len(m), Len(m[1])>>

\* np.median(data, axis=0) over arrays of one shape
MedianAxis0(stack) ==
    [r \in 1..Shape(stack[1])[1] |->
        [c \in 1..Shape(stack[1])[2] |->
            Median([k \in 1..Len(stack) |-> stack[k][r][c]])]]

NaN == [kind |-> "nan"]

\* line 31
CombineMedian ==
    /\ pc = "combine_median"
    /\ IF data = <<>>
       THEN /\ comb' = NaN
            /\ pc' = "combine_return"
            /\ error' = error
       ELSE IF \E k \in 1..Len(data) : Shape(data[k]) # Shape(data[1])
       THEN /\ comb' = comb
            /\ pc' = "raised"
            /\ error' = Raise("ValueError", "np.median", "", "")
       ELSE /\ comb' = Ndarray(MedianAxis0(data))
            /\ pc' = "combine_return"
            /\ error' = error
    /\ UNCHANGED <<moduleVars, alignVars, catalogVars, hdu_s, hdu, data, reference, method,
                   i, result, convLog, backendCalls>>

\* line 32
CombineReturn ==
    /\ pc = "combine_return"
    /\ result' = Returned(FALSE, comb)
    /\ pc' = "returned"
    /\ UNCHANGED <<moduleVars, alignVars, combineVars, catalogVars, reference, method, i,
                   error, convLog, backendCalls>>

InitCombine ==
    /\ installed = {}
    /\ Blank

NextCombine ==
    \/ CombineCall
    \/ CombineMethodCheck
    \/ CombineConvert
    \/ CombineMedian
    \/ CombineReturn

SpecCombine == InitCombine /\ [][NextCombine]_vars

-----------------------------------------------------------------------------
(* sources(catalogs, reference=None) *)

Rows == {[X |-> 0, Y |-> 0, id |-> "s1"], [X |-> 1, Y |-> 2, id |-> "s2"]}

Catalog(rows) == [kind |-> "catalog", data |-> rows, dtype |-> "f8"]

Catalogs == {Catalog(rows) : rows \in SeqsUpTo(Rows, MaxRecords)}

\* [[r["X"], r["Y"]] for r in rows]
Coords(rows) == [k \in 1..Len(rows) |-> <<rows[k].X, rows[k].Y>>]

\* the transform astroalign.find_transform returns for two point lists
Transform(src, target) == [tag |-> "transform", src |-> src, target |-> target]

\* Source(row, dtype=dtype) after s.transform(t)
TransformedSource(row, dtype, t) == [row |-> row, dtype |-> dtype, transform |-> t]

\* lines 120-121
SourcesCall ==
    /\ loaded
    /\ pc = "idle"
    /\ \E cs \in SeqsUpTo(Catalogs, MaxCatalogs), r \in Catalogs \cup {None} :
        /\ catalogs' = cs
        /\ reference' = r
        /\ referenceArg' = r
    /\ aligned' = <<>>
    /\ pc' = "sources_reference"
    /\ UNCHANGED <<moduleVars, combineVars, source_s, sources, outputs, np_ref, np_src,
                   output, selectorCalls, npref, npc, T, c_align, j, method, i, result,
                   error, convLog, backendCalls>>

\* as DefaultReference, with the last catalog taken
DefaultReferenceLast(cats) == cats[Len(cats)]

\* line 122
DefaultReference(cats) == cats[1]

\* lines 121-123
SourcesReference ==
    /\ pc = "sources_reference"
    /\ IF reference = None /\ catalogs = <<>>
       THEN /\ reference' = reference
            /\ npref' = npref
            /\ i' = i
            /\ pc' = "raised"
            /\ error' = Raise("IndexError", "catalogs[0]", "", "")
       ELSE LET ref == IF reference = None THEN DefaultReference(catalogs) ELSE reference
            IN  /\ reference' = ref
                /\ npref' = Coords(ref.data)
                /\ i' = 1
                /\ pc' = "sources_loop"
                /\ error' = error
    /\ UNCHANGED <<moduleVars, alignVars, combineVars, catalogs, npc, T, c_align, aligned,
                   j, method, result, convLog, backendCalls>>

\* lines 124-127: the name astroalign is used outside any try
SourcesFindTransform ==
    /\ pc = "sources_loop"
    /\ i <= Len(catalogs)
    /\ npc' = Coords(catalogs[i].data)
    /\ c_align' = <<>>
    /\ IF ~Resolves("astroalign")
       THEN /\ backendCalls' = backendCalls
            /\ T' = T
            /\ j' = j
            /\ pc' = "raised"
            /\ error' = Raise("NameError", "astroalign", "", "")
       ELSE \E ok \in BOOLEAN :
            /\ backendCalls' = Append(backendCalls,
                    BackendCall("astroalign.find_transform", i, npc', npref, ok))
            /\ IF ok
               THEN /\ T' = Transform(npc', npref)
                    /\ j' = 1
                    /\ pc' = "sources_records"
                    /\ error' = error
               ELSE /\ T' = T
                    /\ j' = j
                    /\ pc' = "raised"
                    /\ error' = BackendError("astroalign.find_transform")
    /\ UNCHANGED <<moduleVars, alignVars, combineVars, catalogs, npref, aligned, reference,
                   method, i, result, convLog>>

\* lines 128-131
SourcesTransformRecord ==
    /\ pc = "sources_records"
    /\ j <= Len(catalogs[i].data)
    /\ c_align' = Append(c_align, TransformedSource(catalogs[i].data[j], catalogs[i].dtype, T))
    /\ j' = j + 1
    /\ UNCHANGED <<moduleVars, alignVars, combineVars, catalogs, npref, npc, T, aligned,
                   callVars>>

\* line 132
SourcesAppend ==
    /\ pc = "sources_records"
    /\ j > Len(catalogs[i].data)
    /\ aligned' = Append(aligned, c_align)
    /\ i' = i + 1
    /\ pc' = "sources_loop"
    /\ UNCHANGED <<moduleVars, alignVars, combineVars, catalogs, npref, npc, T, c_align, j,
                   reference, method, result, error, convLog, backendCalls>>

\* line 133
SourcesReturn ==
    /\ pc = "sources_loop"
    /\ i > Len(catalogs)
    /\ result' = Returned(TRUE, aligned)
    /\ pc' = "returned"
    /\ UNCHANGED <<moduleVars, alignVars, combineVars, catalogVars, reference, method, i,
                   error, convLog, backendCalls>>

\* sources needs astroalign alone
InitSources ==
    /\ installed \in {S \in InstallSets : S \subseteq {"astroalign"}}
    /\ Blank

NextSources ==
    \/ LoadModule
    \/ SourcesCall
    \/ SourcesReference
    \/ SourcesFindTransform
    \/ SourcesTransformRecord
    \/ SourcesAppend
    \/ SourcesReturn

SpecSources == InitSources /\ [][NextSources]_vars

-----------------------------------------------------------------------------
(* Properties of the align dispatcher *)

\* the k-th element of the argument, a single value counting as position 1
ArgAt(k) == IF source_s.islist THEN source_s.value[k] ELSE source_s.value

ArgLen == IF source_s.islist THEN Len(source_s.value) ELSE 1

\* the k-th value handed back
ResultAt(k) == IF result.kind = "list" THEN result.value[k] ELSE result.value

Range(s) == {s[k] : k \in 1..Len(s)}

\* the optional packages a method needs
DepsOf(m) ==
    CASE m = "astroalign" -> {"astroalign"}
      [] m = "skimage" -> {"skimage", "scipy"}
      [] m = "chi2" -> {"image_registration"}
      [] m = "imreg" -> {"imreg_dft"}
      [] OTHER -> {}

DependencyAbsent(m) == ~(DepsOf(m) \subseteq installed)

AlignRunning == pc \in {"align_reference", "align_np_ref", "align_loop", "align_dispatch",
                        "align_wrap", "returned", "raised"}

SourcesAreImages == \A k \in 1..ArgLen : ArgAt(k) \in Images

ReferenceAbsentOrImage == referenceArg = None \/ referenceArg \in Images

\* out is what a successful backend call at position k made of src
IsAlignedOutputOf(out, src, k) ==
    /\ out.data.tag = "aligned"
    /\ out.data.src = ToNp(src)
    /\ \E c \in Range(backendCalls) : c.pos = k /\ c.ok /\ c.src = ToNp(src)

\* C1: a successful align returns one output for a single image and, for a
\* list of N sources, a list of N outputs whose k-th element is the aligned
\* output of the k-th source.
C1_ResultShapeFollowsArgument ==
    pc = "returned" =>
        IF source_s.islist
        THEN /\ result.kind = "list"
             /\ Len(result.value) = Len(source_s.value)
             /\ \A k \in 1..Len(source_s.value) :
                    IsAlignedOutputOf(result.value[k], source_s.value[k], k)
        ELSE /\ result.kind = "single"
             /\ IsAlignedOutputOf(result.value, source_s.value, 1)

C1_Witness ==
    /\ pc = "returned"
    /\ source_s.islist
    /\ Len(source_s.value) = 2
    /\ ToNp(source_s.value[1]) # ToNp(source_s.value[2])
    /\ result.kind = "list"

\* C2: in a successful align the k-th output is of the k-th source's variant:
\* an HDU source gives an HDU with that source's own header, an array source
\* gives a bare array.
C2_CarrierAndHeaderKept ==
    pc = "returned" =>
        \A k \in 1..ArgLen :
            /\ ArgAt(k).kind = "hdu" =>
                    ResultAt(k).kind = "hdu" /\ ResultAt(k).header = ArgAt(k).header
            /\ ArgAt(k).kind = "ndarray" => ResultAt(k).kind = "ndarray"

C2_Witness ==
    /\ pc = "returned"
    /\ source_s.islist
    /\ Len(source_s.value) = 2
    /\ source_s.value[1].kind = "hdu"
    /\ source_s.value[2].kind = "hdu"
    /\ source_s.value[1].header # source_s.value[2].header
    /\ referenceArg.kind = "hdu"
    /\ referenceArg.header # source_s.value[1].header
    /\ result.value[1].header = source_s.value[1].header

UnexpectedMethod(m) == Raise("ValueError", "unexpected_method", m, "")

\* C3 as stated: whatever the reference, a call with an unknown method and a
\* single image or a non-empty list of images ends with the unrecognized-method
\* error, and no backend is ever invoked.
C3_UnknownMethodRejected_AnyReference ==
    (AlignRunning /\ method \notin Methods /\ ArgLen >= 1 /\ SourcesAreImages) =>
        /\ backendCalls = <<>>
        /\ pc # "returned"
        /\ pc = "raised" => error = UnexpectedMethod(method)

\* C3 amended: the same, for calls whose reference is absent or an image.
C3_UnknownMethodRejected ==
    (AlignRunning /\ method \notin Methods /\ ArgLen >= 1 /\ SourcesAreImages
        /\ ReferenceAbsentOrImage) =>
        /\ backendCalls = <<>>
        /\ pc # "returned"
        /\ pc = "raised" => error = UnexpectedMethod(method)

C3_Witness ==
    /\ pc = "raised"
    /\ method \notin Methods
    /\ source_s.islist
    /\ Len(source_s.value) = 2
    /\ SourcesAreImages
    /\ ReferenceAbsentOrImage
    /\ error = UnexpectedMethod(method)

AllConvertible == SourcesAreImages /\ ReferenceAbsentOrImage

\* C4 as stated: every call with convertible inputs that selects a method
\* whose dependency was absent at load ends with the unavailable-dependency
\* error naming the method.  (A call with no reference and no source at all
\* is left aside: what ref_image makes of an empty list is not known.)
C4_AbsentDependencyReported_AnyLength ==
    (AlignRunning /\ method \in Methods /\ DependencyAbsent(method) /\ AllConvertible
        /\ ~(referenceArg = None /\ ArgLen = 0)) =>
        /\ pc # "returned"
        /\ pc = "raised" => error.kind = "disabled" /\ error.method = method

\* C4 amended: the same, for a single image or a non-empty list.
C4_AbsentDependencyReported ==
    (AlignRunning /\ method \in Methods /\ DependencyAbsent(method) /\ AllConvertible
        /\ ArgLen >= 1) =>
        /\ pc # "returned"
        /\ pc = "raised" =>
                /\ error.class = "ValueError"
                /\ error.kind = "disabled"
                /\ error.method = method

C4_Witness ==
    /\ pc = "raised"
    /\ method = "astroalign"
    /\ DependencyAbsent(method)
    /\ AllConvertible
    /\ ArgLen >= 1
    /\ error.kind = "disabled"
    /\ error.method = "astroalign"

\* C5: loading the module raises nothing, and align ends with the
\* unavailable-dependency error only when the selected method's dependency
\* was absent at load.
C5_DisabledOnlyWhenAbsent ==
    /\ loaded => loadError = NoError
    /\ (pc = "raised" /\ error.kind = "disabled") => DependencyAbsent(method)

FailedConversions == {c \in Range(convLog) : c.of = "source" /\ ~c.ok}

FailedBackendCalls == {c \in Range(backendCalls) : ~c.ok}

SourceConversions == {c \in Range(convLog) : c.of = "source"}

\* C10: the reference is fixed once, before any source is touched: the
\* selector runs exactly once, over the whole normalized list, when no
\* reference was given and never otherwise, and every backend call of the
\* batch is made against the one converted reference.
C10_ReferenceFixedOnce ==
    /\ referenceArg # None => selectorCalls = <<>> /\ reference = referenceArg
    /\ (referenceArg = None /\ pc \notin {"idle", "align_reference"}) =>
            selectorCalls = <<IF source_s.islist THEN source_s.value ELSE <<source_s.value>> >>
    /\ Len(selectorCalls) <= 1
    /\ pc \in {"idle", "align_reference", "align_np_ref"} =>
            SourceConversions = {} /\ backendCalls = <<>>
    /\ \A c \in Range(backendCalls) : c.ref = ToNp(reference) /\ c.ref = np_ref
    /\ pc = "returned" =>
            \A k \in 1..ArgLen :
                /\ ResultAt(k).data.ref = ToNp(reference)
                /\ \E c \in Range(backendCalls) : c.pos = k /\ c.ok

C10_Witness ==
    /\ pc = "returned"
    /\ referenceArg = None
    /\ source_s.islist
    /\ Len(source_s.value) = 2
    /\ source_s.value[1] # source_s.value[2]
    /\ reference = source_s.value[2]
    /\ Len(selectorCalls) = 1


-----------------------------------------------------------------------------
(* Properties of the combiner *)

CombineRunning == pc \in {"combine_method", "combine_convert", "combine_median",
                          "combine_return", "returned", "raised"}

\* C6: whatever the images are, a combine with a method other than numpy
\* ends with the not-implemented error, converts nothing and produces nothing.
C6_OtherMethodNotImplemented ==
    (CombineRunning /\ method # "numpy") =>
        /\ convLog = <<>>
        /\ data = <<>>
        /\ comb = None
        /\ result = NoResult
        /\ pc \in {"combine_method", "raised"}
        /\ pc = "raised" => error.class = "NotImplementedError"

C6_Witness ==
    /\ pc = "raised"
    /\ method # "numpy"
    /\ hdu_s.islist
    /\ Len(hdu_s.value) = 2
    /\ hdu_s.value[1] \in CombineImages
    /\ hdu_s.value[2] = Other
    /\ error.class = "NotImplementedError"

CombineArgAt(k) == IF hdu_s.islist THEN hdu_s.value[k] ELSE hdu_s.value

CombineArgLen == IF hdu_s.islist THEN Len(hdu_s.value) ELSE 1

\* the pixels of the k-th image passed in
PixelsOf(k) == CombineArgAt(k).data

EqualShapedImages ==
    /\ CombineArgLen >= 1
    /\ \A k \in 1..CombineArgLen : CombineArgAt(k) \in CombineImages
    /\ \A k \in 1..CombineArgLen :
        /\ Len(PixelsOf(k)) = Len(PixelsOf(1))
        /\ \A r \in 1..Len(PixelsOf(1)) : Len(PixelsOf(k)[r]) = Len(PixelsOf(1)[r])

\* x is the n-th smallest of the samples at pixel (r, c)
NthSmallestAt(x, n, r, c) ==
    /\ \E k \in 1..CombineArgLen : PixelsOf(k)[r][c] = x
    /\ Cardinality({k \in 1..CombineArgLen : PixelsOf(k)[r][c] < x}) < n
    /\ Cardinality({k \in 1..CombineArgLen : PixelsOf(k)[r][c] <= x}) >= n

\* the number q is the median of the samples at pixel (r, c)
IsMedianAt(q, r, c) ==
    \E lo \in 0..MaxPixel, hi \in 0..MaxPixel :
        /\ NthSmallestAt(lo, (CombineArgLen + 1) \div 2, r, c)
        /\ NthSmallestAt(hi, CombineArgLen \div 2 + 1, r, c)
        /\ q.den > 0
        /\ 2 * q.num = (lo + hi) * q.den

\* C7: combine with numpy over a non-empty sequence of equally shaped images
\* returns an array of that shape holding the median at every pixel: the
\* image itself for one image, (A + B) / 2 for two.
C7_PixelwiseMedian ==
    (CombineRunning /\ method = "numpy" /\ EqualShapedImages) =>
        /\ pc # "raised"
        /\ pc = "returned" =>
            /\ result.kind = "single"
            /\ result.value.kind = "ndarray"
            /\ Len(result.value.data) = Len(PixelsOf(1))
            /\ \A r \in 1..Len(PixelsOf(1)) :
                /\ Len(result.value.data[r]) = Len(PixelsOf(1)[r])
                /\ \A c \in 1..Len(PixelsOf(1)[r]) :
                    LET q == result.value.data[r][c]
                    IN  /\ IsMedianAt(q, r, c)
                        /\ CombineArgLen = 1 => q = Whole(PixelsOf(1)[r][c])
                        /\ CombineArgLen = 2 =>
                                2 * q.num = (PixelsOf(1)[r][c] + PixelsOf(2)[r][c]) * q.den

C7_Witness ==
    /\ pc = "returned"
    /\ method = "numpy"
    /\ EqualShapedImages
    /\ CombineArgLen = 2
    /\ PixelsOf(1)[1][1] = 0
    /\ PixelsOf(2)[1][1] = 1
    /\ result.value.data[1][1] = [num |-> 1, den |-> 2]
    /\ result.value.data[1][2] = Whole(PixelsOf(1)[1][2])

-----------------------------------------------------------------------------
(* Properties of the point-set aligner *)

\* the catalog every transform is computed against
ReferenceCatalog == IF referenceArg = None THEN catalogs[1] ELSE referenceArg

PointsOf(cat) == [k \in 1..Len(cat.data) |-> <<cat.data[k].X, cat.data[k].Y>>]

CallsAt(k) == {n \in 1..Len(backendCalls) : backendCalls[n].pos = k}

\* C8: a successful call returns one aligned catalog per input catalog, in
\* order; the k-th holds one transformed record per record of catalog k, in
\* order, each transformed with the one transform computed for catalog k
\* against the reference (the first catalog when none is given).
C8_OneAlignedCatalogPerCatalog ==
    (pc = "returned" /\ result.kind = "list") =>
        /\ Len(result.value) = Len(catalogs)
        /\ \A k \in 1..Len(catalogs) :
            /\ Cardinality(CallsAt(k)) = 1
            /\ Len(result.value[k]) = Len(catalogs[k].data)
            /\ \A r \in 1..Len(catalogs[k].data) :
                /\ result.value[k][r].row = catalogs[k].data[r]
                /\ result.value[k][r].transform.src = PointsOf(catalogs[k])
                /\ result.value[k][r].transform.target = PointsOf(ReferenceCatalog)

C8_Witness ==
    /\ pc = "returned"
    /\ referenceArg = None
    /\ Len(catalogs) = 2
    /\ Len(catalogs[1].data) = 1
    /\ Len(catalogs[2].data) = 2
    /\ catalogs[2].data[1] # catalogs[2].data[2]
    /\ catalogs[1].data[1] # catalogs[2].data[1]
    /\ Len(result.value) = 2
    /\ Len(result.value[2]) = 2

=============================================================================
